---- MODULE Spec2Model ----
(***************************************************************************)
(* The stratum client controller of epic-miner (src/src/bin/client.rs):    *)
(* Controller::run and the methods it calls, as a state machine.           *)
(*                                                                         *)
(* One step of the model is one pass through the body of the `loop` of     *)
(* Controller::run (from its top to the bottom sleep, to a `continue` or   *)
(* to the `return`), one second of wall-clock time passing, or the miner   *)
(* worker placing one message on the controller's channel.                 *)
(*                                                                         *)
(* Left out: the three stats strings last_message_received,                *)
(* algorithm_needed and current_network_difficulty (and parse_difficulty   *)
(* and JobTemplate.block_difficulty, which only feed them), the log lines, *)
(* and the TLS/TCP split of Stream.                                        *)
(***************************************************************************)
EXTENDS Integers, Sequences, FiniteSets, TLC

VARIABLES
    pc,                  \* position of run: "start", "loop", "done", "panicked"
    algorithm,           \* Controller.algorithm
    server_login,        \* Controller.server_login: <<>> is None, <<s>> is Some(s)
    stream,              \* Controller.stream is Some(..)
    rx,                  \* miner -> controller channel, oldest first
    stats,               \* the shared Stats record
    was_disconnected,    \* local of run
    next_server_read,    \* local of run, kept as seconds until the deadline
    next_status_request, \* local of run, kept as "pending" / "passed"
    next_server_retry,   \* local of run, kept as seconds until the deadline
    io,                  \* the I/O calls the last step made, in program order
    wire,                \* the calls that opened the latest connection
    hist,                \* measurements for the timing and StopJob properties
    probe,               \* hist as it was at the connect attempt of the last step
    inbound              \* what the server sent and read_line has not taken yet

vars == <<pc, algorithm, server_login, stream, rx, stats, was_disconnected,
          next_server_read, next_status_request, next_server_retry,
          io, wire, hist, probe, inbound>>

----------------------------------------------------------------------------
(* Bounds of the model *)

\* `submit` responses the server sends in one run
MaxShares == 1
\* messages waiting on the miner -> controller channel
MaxRx == 1
\* entries of a job's difficulty list
MaxDiffLen == 2

(* Program constants *)

server_read_interval == 1
server_retry_interval == 5

----------------------------------------------------------------------------
(* Option<T>: None is the empty tuple, Some(v) the one-element tuple *)

None == <<>>
Some(v) == <<v>>
IsSome(o) == Len(o) > 0
Unwrap(o) == o[1]

(* Texts are tuples of characters, so that `contains` is computed *)

Contains(hay, needle) ==
    \E i \in 0..(Len(hay) - Len(needle)) :
        SubSeq(hay, i + 1, i + Len(needle)) = needle

Quoted(t) == <<"\"">> \o t \o <<"\"">>

T_blockfound == <<"b","l","o","c","k","f","o","u","n","d">>
T_too_late == <<"t","o","o"," ","l","a","t","e">>
T_ok == <<"o","k">>
T_block_found == <<"b","l","o","c","k"," ","f","o","u","n","d">>
T_share_is_too_late == <<"s","h","a","r","e"," ","i","s"," ">> \o T_too_late
T_too_low == <<"t","o","o"," ","l","o","w">>
T_late == <<"l","a","t","e">>
T_invalid_error ==
    <<"I","n","v","a","l","i","d"," ","e","r","r","o","r"," ",
      "r","e","s","p","o","n","s","e"," ","r","e","c","e","i","v","e","d">>

invlalid_error_response == [code |-> 0, message |-> T_invalid_error]

----------------------------------------------------------------------------
(* core::Algorithm and its wire tokens *)

Algorithm == {"Cuckoo", "RandomX", "ProgPow"}

parse_algorithm(algo) ==
    CASE algo = "Cuckoo" -> "cuckoo"
      [] algo = "RandomX" -> "randomx"
      [] algo = "ProgPow" -> "progpow"

\* Ok(Algorithm) is the algorithm, Err(RequestError) is "Err"
get_parse_algorithm(algo) ==
    CASE algo = "cuckoo" -> "Cuckoo"
      [] algo = "randomx" -> "RandomX"
      [] algo = "progpow" -> "ProgPow"
      [] OTHER -> "Err"

\* the `match job.algorithm.as_str()` of handle_request and handle_response
algo_needed(job_algorithm) ==
    IF job_algorithm \in {"cuckoo", "randomx", "progpow"}
    THEN job_algorithm ELSE ""

\* the `match self.algorithm` of run that sets stats.client_stats.my_algorithm
my_algorithm_name(algo) ==
    CASE algo = "Cuckoo" -> "Cuckatoo"
      [] algo = "RandomX" -> "RandomX"
      [] algo = "ProgPow" -> "ProgPow"

----------------------------------------------------------------------------
(* types::JobTemplate, the server's lines and the miner's messages *)

\* names the server may put in `algorithm` and in the difficulty lists
WireNames == {"cuckoo", "randomx", "foo"}

DiffPairs == {<<"cuckoo", 7>>, <<"randomx", 8>>, <<"foo", 5>>}

DiffLists == UNION {[1..n -> DiffPairs] : n \in 0..MaxDiffLen}

JobTemplate(algo, difficulty) ==
    [height |-> 100, job_id |-> 42, pre_pow |-> "pre_pow",
     algorithm |-> algo, difficulty |-> difficulty, epochs |-> "epochs"]

NoJob == JobTemplate("", <<>>)

JobTemplates == {JobTemplate(a, d) : a \in WireNames, d \in DiffLists}

\* One line read from the server.
\*   json:     the line parses as a serde_json::Value
\*   method:   v["method"]
\*   typed:    the line decodes as RpcRequest (method "job") or RpcResponse
\*   payload:  params (request) or result (response) is Some
\*   decodes:  the payload decodes as the struct its handler asks for
\*   job:      the payload as a JobTemplate, when it is one
\*   text:     serde_json::to_string of the payload
\*   error:    RpcResponse.error
Line(json, method, typed, payload, decodes, job, text, error) ==
    [json |-> json, method |-> method, typed |-> typed, payload |-> payload,
     decodes |-> decodes, job |-> job, text |-> text, error |-> error]

Garbage == Line(FALSE, "", FALSE, FALSE, FALSE, NoJob, <<>>, None)

Result(method, text) == Line(TRUE, method, TRUE, TRUE, TRUE, NoJob, text, None)

Failure(method, error) == Line(TRUE, method, TRUE, FALSE, FALSE, NoJob, <<>>, error)

RpcError(message) == [code |-> -1, message |-> message]

ErrorMessages == {T_too_late, T_share_is_too_late, T_too_low, T_late}

ResultTexts == {Quoted(T_ok), Quoted(T_blockfound), Quoted(T_block_found)}

Errors == {None} \cup {Some(RpcError(m)) : m \in ErrorMessages}

JobLines ==
    {Line(TRUE, "job", TRUE, TRUE, TRUE, j, <<>>, None) : j \in JobTemplates}
    \cup {Line(TRUE, "job", FALSE, FALSE, FALSE, NoJob, <<>>, None),
          Line(TRUE, "job", TRUE, FALSE, FALSE, NoJob, <<>>, None),
          Line(TRUE, "job", TRUE, TRUE, FALSE, NoJob, <<>>, None)}

TemplateLines ==
    {Line(TRUE, "getjobtemplate", TRUE, TRUE, TRUE, j, <<>>, None) :
        j \in JobTemplates}
    \cup {Line(TRUE, "getjobtemplate", TRUE, TRUE, FALSE, NoJob, <<>>, None),
          Failure("getjobtemplate", Some(RpcError(T_too_low)))}

SubmitLines ==
    {Result("submit", t) : t \in ResultTexts}
    \cup {Failure("submit", e) : e \in Errors}

OtherLines ==
    {Garbage,
     Line(TRUE, "status", FALSE, FALSE, FALSE, NoJob, <<>>, None),
     Result("status", Quoted(T_ok)),
     Line(TRUE, "status", TRUE, TRUE, FALSE, NoJob, Quoted(T_ok), None),
     Failure("status", None),
     Result("keepalive", Quoted(T_ok)),
     Failure("keepalive", None),
     Result("login", Quoted(T_ok)),
     Failure("login", Some(RpcError(T_too_low))),
     Result("seed", Quoted(T_ok)),
     Line(TRUE, "seed", TRUE, TRUE, FALSE, NoJob, Quoted(T_ok), None),
     Failure("seed", None),
     Result("ping", Quoted(T_ok))}

Lines == JobLines \cup TemplateLines \cup SubmitLines \cup OtherLines

\* the lines the server sends in the session specification: one of each
\* effect a line can have on the miner channel and on the stats
SessionLines ==
    {Garbage,
     Line(TRUE, "job", TRUE, TRUE, TRUE,
          JobTemplate("randomx", <<<<"randomx", 8>>>>), <<>>, None),
     Line(TRUE, "getjobtemplate", TRUE, TRUE, TRUE,
          JobTemplate("cuckoo", <<<<"cuckoo", 7>>>>), <<>>, None),
     Result("submit", Quoted(T_blockfound)),
     Result("submit", Quoted(T_ok)),
     Failure("submit", Some(RpcError(T_too_late))),
     Failure("submit", None),
     Failure("login", None),
     Result("keepalive", Quoted(T_ok))}

\* types::MinerMessage
StopJob == [kind |-> "StopJob"]
ReceivedSeed(epochs) == [kind |-> "ReceivedSeed", epochs |-> epochs]
ReceivedJob(height, job_id, difficulty, pre_pow) ==
    [kind |-> "ReceivedJob", height |-> height, job_id |-> job_id,
     difficulty |-> difficulty, pre_pow |-> pre_pow]

\* types::ClientMessage
Solution == [id |-> 42, nonce |-> 9]
FoundSolution(height, solution) ==
    [kind |-> "FoundSolution", height |-> height, solution |-> solution]
Shutdown == [kind |-> "Shutdown", height |-> 0, solution |-> Solution]
ClientMessages == {FoundSolution(500, Solution), Shutdown}

\* outcomes of Stream::read_line other than a line
ReadFailures == {"BrokenPipe", "Eof", "Other"}

----------------------------------------------------------------------------
(* The shared Stats: client_stats and mining_stats.solution_stats *)

\* poisoned is the state of the RwLock that guards the Stats: a thread that
\* panics while it holds the lock poisons it, and write() then returns Err
StatsDefault ==
    [poisoned |-> FALSE,
     connected |-> FALSE,
     connection_status |-> "",
     my_algorithm |-> "",
     last_message_sent |-> <<"">>,
     num_shares_accepted |-> 0,
     num_rejected |-> 0,
     num_staled |-> 0,
     num_blocks_found |-> 0]

StatusCantConnect ==
    "Connection Status: Can't establish server connection. Will retry every 5 seconds"
StatusConnected == "Connection Status: Connected to Epic server."
StatusRequiresLogin == "Connection Status: Server requires login"

----------------------------------------------------------------------------
(* The methods of Controller.  Each takes the mutable state `c` it works   *)
(* on and returns it changed; c.ret is the method's Result ("Ok", "Err"),  *)
(* c.io the calls made so far in this pass of the loop.                    *)

\* a call of write, with what it returns: res is "Ok" or "Err".  The other
\* calls carry their outcome in arg and are logged by Call.
CallRes(c, op, arg, locked, res) ==
    [c EXCEPT !.io = Append(@, [op |-> op, arg |-> arg, locked |-> locked,
                                res |-> res])]

Call(c, op, arg, locked) == CallRes(c, op, arg, locked, "Ok")

Ret(c, r) == [c EXCEPT !.ret = r]

\* self.stats.write() returns Err: `?` turns it into Error::GeneralError
\* (lines 51-55), unwrap() panics
Poisoned(c) == c.stats.poisoned

\* stream.write + write("\n") + flush: c.link is what the transport answers
\* them in this pass, and `let _ =` drops it
send_message(c, message) ==
    IF ~c.stream
    THEN Ret(c, "Err")
    ELSE Ret(CallRes(c, "write", message, FALSE, c.link), "Ok")

SetLastMessageSent(c, text) ==
    [c EXCEPT !.stats.last_message_sent = text]

send_message_get_job_template(c) ==
    IF Poisoned(c) THEN Ret(c, "Err") ELSE
    send_message(
        SetLastMessageSent(c, <<"Last Message Sent: Get New Job">>),
        [method |-> "getjobtemplate",
         params |-> [algorithm |-> parse_algorithm(c.algorithm)]])

\* a variant that sends the login request whatever the login is
send_login_always(c) ==
    LET login_str == IF IsSome(c.server_login) THEN Unwrap(c.server_login) ELSE ""
    IN  send_message(
            SetLastMessageSent(c, <<"Last Message Sent: Login">>),
            [method |-> "login", params |-> [login |-> login_str]])

send_login(c) ==
    LET login_str == IF IsSome(c.server_login) THEN Unwrap(c.server_login) ELSE ""
    IN  IF login_str = ""
        THEN Ret(c, "Ok")
        ELSE IF Poisoned(c) THEN Ret(c, "Err")
        ELSE send_message(
                SetLastMessageSent(c, <<"Last Message Sent: Login">>),
                [method |-> "login", params |-> [login |-> login_str]])

send_message_get_status(c) ==
    send_message(c, [method |-> "status", params |-> None])

\* a variant that writes while it holds the stats write guard
send_message_submit_locked(c, height, solution) ==
    LET c1 == SetLastMessageSent(c,
                  <<"Last Message Sent: Found share for height: ", height,
                    " - nonce: ", solution.nonce>>)
    IN  IF ~c1.stream
        THEN Ret(c1, "Err")
        ELSE Ret(CallRes(c1, "write",
                         [method |-> "submit",
                          params |-> [height |-> height, job_id |-> solution.id,
                                      nonce |-> solution.nonce]],
                         TRUE, c1.link),
                 "Ok")

send_message_submit(c, height, solution) ==
    IF Poisoned(c) THEN Ret(c, "Err") ELSE
    send_message(
        SetLastMessageSent(c,
            <<"Last Message Sent: Found share for height: ", height,
              " - nonce: ", solution.nonce>>),
        [method |-> "submit",
         params |-> [height |-> height, job_id |-> solution.id,
                     nonce |-> solution.nonce]])

send_miner_stop(c) == Ret(Call(c, "miner_tx.send", StopJob, FALSE), "Ok")

send_miner_seed(c, epochs) ==
    Ret(Call(c, "miner_tx.send", ReceivedSeed(epochs), FALSE), "Ok")

\* the `for (algo, difficulty) in &job.difficulty` of send_miner_job, from
\* entry i on: ok is FALSE when get_parse_algorithm(..)? returns early
RECURSIVE job_difficulty(_, _, _)
job_difficulty(algo, difficulty, i) ==
    IF i > Len(difficulty)
    THEN [ok |-> TRUE, diff |-> 1]
    ELSE LET parsed == get_parse_algorithm(difficulty[i][1])
         IN  IF parsed = "Err"
             THEN [ok |-> FALSE, diff |-> 1]
             ELSE IF algo = parsed
                  THEN [ok |-> TRUE, diff |-> difficulty[i][2]]
                  ELSE job_difficulty(algo, difficulty, i + 1)

\* a variant that sends the job before the seed
send_miner_job_first(c, job) ==
    LET d == job_difficulty(c.algorithm, job.difficulty, 1)
    IN  IF ~d.ok
        THEN Ret(c, "Err")
        ELSE Ret(Call(Call(c, "miner_tx.send",
                           ReceivedJob(job.height, job.job_id, d.diff, job.pre_pow),
                           TRUE),
                      "miner_tx.send", ReceivedSeed(job.epochs), FALSE),
                 "Ok")

send_miner_job(c, job) ==
    LET c1 == Call(c, "miner_tx.send", ReceivedSeed(job.epochs), FALSE)
        d == job_difficulty(c.algorithm, job.difficulty, 1)
    IN  IF ~d.ok \/ Poisoned(c)
        THEN Ret(c1, "Err")
        ELSE \* the stats write guard taken at line 407 lives to the end
             Ret(Call(c1, "miner_tx.send",
                      ReceivedJob(job.height, job.job_id, d.diff, job.pre_pow),
                      TRUE),
                 "Ok")

\* a variant that drops a job whose algorithm name it does not know
forward_job_skips_unknown(c, job) ==
    IF algo_needed(job.algorithm) = ""
    THEN Ret(c, "Ok")
    ELSE IF parse_algorithm(c.algorithm) = algo_needed(job.algorithm)
         THEN send_miner_job(c, job)
         ELSE send_miner_stop(c)

\* the tail shared by the `job` request and the `getjobtemplate` result
forward_job(c, job) ==
    IF parse_algorithm(c.algorithm) = algo_needed(job.algorithm)
    THEN send_miner_job(c, job)
    ELSE send_miner_stop(c)

handle_request(c, req) ==
    IF req.method = "job"
    THEN IF ~req.payload
         THEN Ret(c, "Err")
         ELSE IF ~req.decodes
              THEN Ret(c, "Err")
              ELSE forward_job(c, req.job)
    ELSE Ret(c, "Err")

\* a variant that counts a block for every accepted share
submit_response_counts_blocks(c, res) ==
    IF res.payload
    THEN Ret([c EXCEPT !.stats.num_shares_accepted = @ + 1,
                       !.stats.num_blocks_found = @ + 1],
             "Ok")
    ELSE LET err == IF IsSome(res.error) THEN Unwrap(res.error)
                    ELSE invlalid_error_response
         IN  Ret(IF Contains(err.message, T_too_late)
                 THEN [c EXCEPT !.stats.num_staled = @ + 1]
                 ELSE [c EXCEPT !.stats.num_rejected = @ + 1],
                 "Ok")

\* a variant that looks for `late` instead of `too late`
submit_response_late(c, res) ==
    IF res.payload
    THEN LET c1 == [c EXCEPT !.stats.num_shares_accepted = @ + 1]
         IN  Ret(IF Contains(res.text, T_blockfound)
                 THEN [c1 EXCEPT !.stats.num_blocks_found = @ + 1]
                 ELSE c1,
                 "Ok")
    ELSE LET err == IF IsSome(res.error) THEN Unwrap(res.error)
                    ELSE invlalid_error_response
         IN  Ret(IF Contains(err.message, T_late)
                 THEN [c EXCEPT !.stats.num_staled = @ + 1]
                 ELSE [c EXCEPT !.stats.num_rejected = @ + 1],
                 "Ok")

submit_response(c, res) ==
    IF Poisoned(c) THEN Ret(c, "Err") ELSE
    IF res.payload
    THEN LET c1 == [c EXCEPT !.stats.num_shares_accepted = @ + 1]
         IN  Ret(IF Contains(res.text, T_blockfound)
                 THEN [c1 EXCEPT !.stats.num_blocks_found = @ + 1]
                 ELSE c1,
                 "Ok")
    ELSE LET err == IF IsSome(res.error) THEN Unwrap(res.error)
                    ELSE invlalid_error_response
         IN  Ret(IF Contains(err.message, T_too_late)
                 THEN [c EXCEPT !.stats.num_staled = @ + 1]
                 ELSE [c EXCEPT !.stats.num_rejected = @ + 1],
                 "Ok")

\* a variant that ends the session when the login is refused
login_response_fatal(c, res) ==
    IF res.payload
    THEN Ret(c, "Ok")
    ELSE Ret([c EXCEPT !.stats.connection_status = StatusRequiresLogin,
                       !.stats.connected = FALSE,
                       !.stream = FALSE],
             "Ok")

\* a variant that stops the miner when the login is refused
login_response_stops(c, res) ==
    IF res.payload
    THEN Ret(c, "Ok")
    ELSE IF Poisoned(c) THEN Ret(c, "Err")
    ELSE send_miner_stop(
             [c EXCEPT !.stats.connection_status = StatusRequiresLogin,
                       !.stats.connected = FALSE])

login_response(c, res) ==
    IF res.payload
    THEN Ret(c, "Ok")
    ELSE IF Poisoned(c) THEN Ret(c, "Err")
    ELSE Ret([c EXCEPT !.stats.connection_status = StatusRequiresLogin,
                       !.stats.connected = FALSE],
             "Ok")

\* an arm that only writes last_message_received
note_received(c) == IF Poisoned(c) THEN Ret(c, "Err") ELSE Ret(c, "Ok")

handle_response(c, res) ==
    CASE res.method = "status" ->
            IF res.payload /\ ~res.decodes THEN Ret(c, "Err") ELSE note_received(c)
      [] res.method = "getjobtemplate" ->
            IF res.payload
            THEN IF ~res.decodes \/ Poisoned(c) THEN Ret(c, "Err")
                 ELSE forward_job(c, res.job)
            ELSE note_received(c)
      [] res.method = "submit" -> submit_response(c, res)
      [] res.method = "keepalive" ->
            IF res.payload THEN Ret(c, "Ok") ELSE note_received(c)
      [] res.method = "login" -> login_response(c, res)
      [] res.method = "seed" ->
            IF res.payload
            THEN IF ~res.decodes THEN Ret(c, "Err")
                 ELSE send_miner_seed(c, "epochs")
            ELSE note_received(c)
      [] OTHER -> note_received(c)

----------------------------------------------------------------------------
(* Wall-clock time.  A deadline `next_x` of run is kept as the number of   *)
(* whole seconds left until time::get_time().sec reaches it, and -1 once   *)
(* the clock is past it, so that `get_time().sec > next_x` is              *)
(* `next_x < 0` and `next_x = get_time().sec + k` is `next_x = k`.         *)
(* next_status_request, which no property measures, keeps only whether the *)
(* clock is past it.                                                       *)

Countdown(d) == IF d < 0 THEN d ELSE d - 1

Due(d) == d < 0

Min(a, b) == IF a < b THEN a ELSE b

CapInc(n, cap) == IF n < 0 \/ n >= cap THEN n ELSE n + 1

NoHist == [since_attempt |-> -1, drop_age |-> -1, stops |-> 0]

\* one more second on the measurements: time since the last connect attempt
\* and since the transport was dropped (-1: there was none)
HistTick(h) ==
    [h EXCEPT !.since_attempt = CapInc(@, server_retry_interval + 1),
              !.drop_age = CapInc(@, server_retry_interval)]

----------------------------------------------------------------------------
(* Controller::run: one pass through the body of `loop`.  The fields of c  *)
(* are the fields of Controller, the locals of run, the stats and:         *)
(*   ret    the Result of the last method called                           *)
(*   io     the calls made so far in this pass                             *)
(*   slept  whether the pass ended in the 1 s sleep of line 667            *)

\* a variant that gives up the connection on a line it cannot decode
dispatch_strict(c, m) ==
    IF ~m.typed
    THEN [c EXCEPT !.stream = FALSE]
    ELSE IF m.method = "job" THEN handle_request(c, m) ELSE handle_response(c, m)

\* lines 697-741: classify the line m and hand it to its handler; an Err of
\* the handler is logged and dropped
dispatch(c, m) ==
    IF m.method = "job"
    THEN IF m.typed THEN handle_request(c, m) ELSE c
    ELSE IF m.typed THEN handle_response(c, m) ELSE c

\* lines 762-779: `while let Some(message) = self.rx.try_iter().next()`
RECURSIVE drain(_)
drain(c) ==
    IF c.rx = <<>>
    THEN c
    ELSE LET message == Head(c.rx)
             c1 == [c EXCEPT !.rx = Tail(@)]
         IN  IF message.kind = "Shutdown"
             THEN [c1 EXCEPT !.pc = "done"]
             ELSE LET c2 == send_message_submit(c1, message.height,
                                                message.solution)
                  IN  drain(IF c2.ret = "Err"
                            THEN [c2 EXCEPT !.stream = FALSE]
                            ELSE c2)

\* a variant that starts the stats afresh on a new connection
connect_resetting_stats(c, ok) ==
    LET c1 == Call(c, "try_connect", ok, FALSE)
        c2 == IF ~ok
              THEN [c1 EXCEPT !.stats.connection_status = StatusCantConnect,
                              !.stats.connected = FALSE,
                              !.stream = FALSE]
              ELSE [c1 EXCEPT !.stats = [StatsDefault EXCEPT
                                            !.connection_status = StatusConnected],
                              !.stream = TRUE]
    IN  [c2 EXCEPT !.next_server_retry = server_retry_interval]

\* a variant that sets the retry deadline after a failed attempt only
connect_rearming_on_failure(c, ok) ==
    LET c1 == Call(c, "try_connect", ok, FALSE)
    IN  IF ~ok
        THEN [c1 EXCEPT !.stats.connection_status = StatusCantConnect,
                        !.stats.connected = FALSE,
                        !.stream = FALSE,
                        !.next_server_retry = server_retry_interval]
        ELSE [c1 EXCEPT !.stats.connection_status = StatusConnected,
                        !.stream = TRUE]

\* a variant that never sets the retry deadline again
connect_without_rearming(c, ok) ==
    LET c1 == Call(c, "try_connect", ok, FALSE)
    IN  IF ~ok
        THEN [c1 EXCEPT !.stats.connection_status = StatusCantConnect,
                        !.stats.connected = FALSE,
                        !.stream = FALSE]
        ELSE [c1 EXCEPT !.stats.connection_status = StatusConnected,
                        !.stream = TRUE]

\* lines 647-665: the connect attempt; ok is what Stream::try_connect returns
connect(c, ok) ==
    LET c1 == Call(c, "try_connect", ok, FALSE)
        c2 == IF Poisoned(c)
              THEN \* lines 652, 662: self.stats.write().unwrap()
                   [c1 EXCEPT !.pc = "panicked", !.stream = ok]
              ELSE IF ~ok
              THEN [c1 EXCEPT !.stats.connection_status = StatusCantConnect,
                              !.stats.connected = FALSE,
                              !.stream = FALSE]
              ELSE [c1 EXCEPT !.stats.connection_status = StatusConnected,
                              !.stream = TRUE]
    IN  IF c2.pc = "panicked" THEN c2
        ELSE [c2 EXCEPT !.next_server_retry = server_retry_interval]

\* a variant that sends StopJob in every pass without a transport
disconnected_pass_always_stops(c, ok) ==
    LET c2 == [send_miner_stop(c) EXCEPT !.was_disconnected = TRUE]
    IN  IF Due(c2.next_server_retry)
        THEN LET c3 == connect(c2, ok)
             IN  IF c3.pc = "panicked" THEN c3
                 ELSE IF ~c3.stream
                 THEN [c3 EXCEPT !.slept = TRUE]
                 ELSE drain(c3)
        ELSE drain(c2)

\* lines 641-670: the branch taken while self.stream is None.  `continue`
\* after a failed attempt skips the drain of rx.
disconnected_pass(c, ok) ==
    LET c1 == IF ~c.was_disconnected THEN send_miner_stop(c) ELSE c
        c2 == [c1 EXCEPT !.was_disconnected = TRUE]
    IN  IF Due(c2.next_server_retry)
        THEN LET c3 == connect(c2, ok)
             IN  IF c3.pc = "panicked" THEN c3
                 ELSE IF ~c3.stream
                 THEN [c3 EXCEPT !.slept = TRUE]
                 ELSE drain(c3)
        ELSE drain(c2)

\* a variant that asks for the job template before it logs in
handshake_template_first(c) ==
    IF c.was_disconnected
    THEN [send_login(send_message_get_job_template(c))
            EXCEPT !.was_disconnected = FALSE]
    ELSE c

\* a variant that opens the session with the login alone
handshake_login_only(c) ==
    IF c.was_disconnected
    THEN [send_login(c) EXCEPT !.was_disconnected = FALSE]
    ELSE c

\* lines 673-677
handshake(c) ==
    IF c.was_disconnected
    THEN [send_message_get_job_template(send_login(c))
            EXCEPT !.was_disconnected = FALSE]
    ELSE c

\* lines 684-692
mark_connected(c) ==
    IF Poisoned(c)
    THEN \* line 685: self.stats.write().unwrap()
         [c EXCEPT !.pc = "panicked"]
    ELSE
    [c EXCEPT !.stats.my_algorithm = my_algorithm_name(c.algorithm),
              !.stats.connected = TRUE]

\* lines 756-759
status_request(c) ==
    IF c.next_status_request = "passed"
    THEN [send_message_get_status(c) EXCEPT !.next_status_request = "pending"]
    ELSE c

\* lines 671-760: the branch taken while self.stream is Some.  r is what
\* read_line gives: [res |-> "Line", line |-> m], [res |-> "WouldBlock"] or
\* [res |-> f] for f in ReadFailures.  A line that is JSON ends the pass
\* with `continue` (lines 717, 737), a failed read too (line 749).
connected_pass(c, r) ==
    LET c1 == handshake(c)
    IN  IF Due(c1.next_server_read)
        THEN LET c2 == Call(c1, "read_line", r, FALSE)
             IN  IF r.res = "Line"
                 THEN LET c3 == mark_connected(c2)
                      IN  IF c3.pc = "panicked" THEN c3
                          ELSE IF r.line.json
                          THEN dispatch(c3, r.line)
                          ELSE drain(status_request(
                                  [c3 EXCEPT !.next_server_read =
                                                server_read_interval]))
                 ELSE IF r.res = "WouldBlock"
                      THEN drain(status_request(
                              [c2 EXCEPT !.next_server_read =
                                            server_read_interval]))
                      ELSE [c2 EXCEPT !.stream = FALSE]
        ELSE drain(status_request(c1))

----------------------------------------------------------------------------
(* Measurements taken from a pass: the calls that open a connection, and   *)
(* the state of the clocks at a connect attempt.                           *)

IsStop(e) == e.op = "miner_tx.send" /\ e.arg.kind = "StopJob"

IsAttempt(e) == e.op = "try_connect"

IsLineRead(e) == e.op = "read_line" /\ e.arg.res = "Line"

WireKind(e) == IF e.op = "write" THEN e.arg.method ELSE "read"

IsOpening(e) ==
    \/ e.op = "read_line"
    \/ e.op = "write" /\ e.arg.method \in {"login", "getjobtemplate"}

Opened(w) ==
    \E i \in 1..Len(w) : w[i] \in {"getjobtemplate", "read"}

\* wire is the login and getjobtemplate requests written and the read_line
\* calls made on the current connection, up to the first getjobtemplate or
\* read_line: how the connection was opened.  <<>> without a connection.
RECURSIVE NextWire(_, _)
NextWire(w, calls) ==
    IF calls = <<>>
    THEN w
    ELSE LET e == Head(calls)
         IN  IF e.op = "try_connect"
             THEN NextWire(<<>>, Tail(calls))
             ELSE IF IsOpening(e) /\ ~Opened(w)
                  THEN NextWire(Append(w, WireKind(e)), Tail(calls))
                  ELSE NextWire(w, Tail(calls))

StopsIn(calls) == Len(SelectSeq(calls, IsStop))

Attempted(calls) == SelectSeq(calls, IsAttempt) # <<>>

\* hist after a pass from (streamBefore, h) that made `calls`:
\*   since_attempt  seconds since the latest connect attempt returned
\*   drop_age       seconds since an established transport was dropped,
\*                  until the next connect attempt
\*   stops          StopJob sent while the transport is absent, since the
\*                  drop or the latest connect attempt
\* (-1: there was no such attempt or drop)
NextHist(h, calls, streamBefore, streamAfter) ==
    IF Attempted(calls)
    THEN [since_attempt |-> 0, drop_age |-> -1, stops |-> 0]
    ELSE IF streamBefore /\ ~streamAfter
         THEN [h EXCEPT !.drop_age = 0, !.stops = 0]
         ELSE IF ~streamBefore
              THEN [h EXCEPT !.stops = Min(@ + StopsIn(calls), 2)]
              ELSE h

\* the measurements at the connect attempt of a pass, None without one
NextProbe(h, calls) ==
    IF ~Attempted(calls)
    THEN None
    ELSE Some([after_drop |-> h.drop_age >= 0,
               drop_age |-> h.drop_age,
               gap |-> h.since_attempt,
               stops |-> h.stops + StopsIn(calls)])

----------------------------------------------------------------------------
(* The state machine *)

Logins == {None, Some(""), Some("alice")}

Read(res, line) == [res |-> res, line |-> line]

IsShare(m) == m.json /\ m.typed /\ m.method = "submit"

Shares(st) == st.num_shares_accepted + st.num_rejected + st.num_staled

\* what read_line can give: nothing yet, a failure, or the server's next line
Reads(failures, lines) ==
    {Read(f, Garbage) : f \in failures \cup {"WouldBlock"}}
    \cup {Read("Line", m) :
            m \in {l \in lines : IsShare(l) => Shares(stats) < MaxShares}}

\* nothing sent by the server is waiting, and it is not in the middle of a
\* line
NoInbound == [buf |-> <<>>, mid |-> None]

\* Controller::new and lines 630-638 of run, for the given configuration
InitWith(algo, login) ==
    /\ pc = "start"
    /\ algorithm = algo
    /\ server_login = login
    /\ stream = FALSE
    /\ rx = <<>>
    /\ stats = StatsDefault
    /\ was_disconnected = TRUE
    /\ next_server_read = server_read_interval
    /\ next_status_request = "pending"
    /\ next_server_retry = 0
    /\ io = <<>>
    /\ wire = <<>>
    /\ hist = NoHist
    /\ probe = None
    /\ inbound = NoInbound

Init == \E login \in Logins : InitWith("RandomX", login)

\* the state a pass of the loop starts from
Cur ==
    [pc |-> pc, algorithm |-> algorithm, server_login |-> server_login,
     stream |-> stream, rx |-> rx, stats |-> stats,
     was_disconnected |-> was_disconnected,
     next_server_read |-> next_server_read,
     next_status_request |-> next_status_request,
     next_server_retry |-> next_server_retry,
     ret |-> "Ok", io |-> <<>>, slept |-> FALSE, link |-> "Ok"]

\* what write and flush on the transport return during a pass
WriteResults == {"Ok", "Err"}

\* the results to tell apart for a pass that makes the calls `calls` when
\* its writes succeed: a pass that writes nothing is the same under both
WriteResultsFor(calls) ==
    IF SelectSeq(calls, LAMBDA e : e.op = "write") # <<>>
    THEN WriteResults
    ELSE {"Ok"}

\* the pass starts with the transport answering writes with w
Link(c, w) == [c EXCEPT !.link = w]

\* line 772: run returns, or an unwrap() panics and the thread unwinds; self
\* (with its stream and rx) and the locals of run are dropped, the shared
\* stats stay
Returned(c) ==
    /\ pc' = c.pc
    /\ stream' = FALSE
    /\ rx' = <<>>
    /\ stats' = c.stats
    /\ was_disconnected' = TRUE
    /\ next_server_read' = 0
    /\ next_status_request' = "pending"
    /\ next_server_retry' = 0
    /\ io' = c.io
    /\ wire' = <<>>
    /\ hist' = NoHist
    /\ probe' = NextProbe(hist, c.io)
    /\ UNCHANGED <<algorithm, server_login>>

\* the state a pass of the loop ends in
Pass(c) ==
    IF c.pc \in {"done", "panicked"}
    THEN Returned(c)
    ELSE
    /\ pc' = c.pc
    /\ stream' = c.stream
    /\ rx' = c.rx
    /\ stats' = c.stats
    /\ was_disconnected' = c.was_disconnected
    /\ next_server_read' =
          IF c.slept THEN Countdown(c.next_server_read) ELSE c.next_server_read
    /\ next_status_request' = c.next_status_request
    /\ next_server_retry' =
          IF c.slept THEN Countdown(c.next_server_retry) ELSE c.next_server_retry
    /\ io' = c.io
    /\ wire' = IF c.stream THEN NextWire(wire, c.io) ELSE <<>>
    /\ hist' = LET h == NextHist(hist, c.io, stream, c.stream)
               IN  IF c.slept THEN HistTick(h) ELSE h
    /\ probe' = NextProbe(hist, c.io)
    /\ UNCHANGED <<algorithm, server_login>>

\* lines 630-638: the deadlines are set, then run sleeps one second
Start ==
    /\ pc = "start"
    /\ pc' = "loop"
    /\ next_server_read' = Countdown(next_server_read)
    /\ next_server_retry' = Countdown(next_server_retry)
    /\ hist' = HistTick(hist)
    /\ io' = <<>>
    /\ probe' = None
    /\ UNCHANGED <<algorithm, server_login, stream, rx, stats, was_disconnected,
                   next_status_request, wire, inbound>>

\* one second passes between two passes of the loop
Tick ==
    /\ pc = "loop"
    /\ \E passes \in BOOLEAN :
          next_status_request' =
              IF passes THEN "passed" ELSE next_status_request
    /\ next_server_read' = Countdown(next_server_read)
    /\ next_server_retry' = Countdown(next_server_retry)
    /\ hist' = HistTick(hist)
    /\ io' = <<>>
    /\ probe' = None
    /\ UNCHANGED <<pc, algorithm, server_login, stream, rx, stats,
                   was_disconnected, wire, inbound>>

IsShutdown(message) == message.kind = "Shutdown"

\* the miner worker sends on Controller.tx; what is sent behind a Shutdown
\* is never received, and is left out
MinerSend ==
    /\ pc \notin {"done", "panicked"}
    /\ Len(rx) < MaxRx
    /\ SelectSeq(rx, IsShutdown) = <<>>
    /\ \E message \in ClientMessages : rx' = Append(rx, message)
    /\ io' = <<>>
    /\ probe' = None
    /\ UNCHANGED <<pc, algorithm, server_login, stream, stats, was_disconnected,
                   next_server_read, next_status_request, next_server_retry,
                   wire, hist, inbound>>

DisconnectedPass ==
    /\ pc = "loop"
    /\ ~stream
    /\ \E ok \in BOOLEAN :
          \E c0 \in {disconnected_pass(Cur, ok)} :
              \E w \in WriteResultsFor(c0.io) :
                  \E c \in {IF w = "Ok" THEN c0
                            ELSE disconnected_pass(Link(Cur, w), ok)} : Pass(c)
    /\ UNCHANGED inbound

ConnectedPass ==
    /\ pc = "loop"
    /\ stream
    /\ \E r \in Reads(ReadFailures, SessionLines) :
          \E c0 \in {connected_pass(Cur, r)} :
              \E w \in WriteResultsFor(c0.io) :
                  \E c \in {IF w = "Ok" THEN c0
                            ELSE connected_pass(Link(Cur, w), r)} : Pass(c)
    /\ UNCHANGED inbound

Next == Start \/ Tick \/ MinerSend \/ DisconnectedPass \/ ConnectedPass

Spec == Init /\ [][Next]_vars

\* another thread (a reader of the stats) panics while it holds the lock
Poison ==
    /\ pc = "loop"
    /\ ~stats.poisoned
    /\ stats' = [stats EXCEPT !.poisoned = TRUE]
    /\ io' = <<>>
    /\ probe' = None
    /\ UNCHANGED <<pc, algorithm, server_login, stream, rx, was_disconnected,
                   next_server_read, next_status_request, next_server_retry,
                   wire, hist, inbound>>

InitPoison == InitWith("RandomX", Some("alice"))

NextPoison == Next \/ Poison

\* the session lifecycle with a stats lock that can be poisoned
SpecPoison == InitPoison /\ [][NextPoison]_vars

\* the thread of run is scheduled: a pass of the loop that can change
\* something is eventually made
SpecLive ==
    /\ Spec
    /\ WF_vars(DisconnectedPass)
    /\ WF_vars(ConnectedPass)

----------------------------------------------------------------------------
(* The dispatch of one line, for every line of Lines: a controller of any  *)
(* algorithm, in a session it has opened, reads one line from the server.  *)

\* the state after the pass that connects and the pass that opens the
\* session, one second after run entered its loop
Steady(algo, login) ==
    LET c0 == [pc |-> "loop", algorithm |-> algo, server_login |-> login,
               stream |-> FALSE, rx |-> <<>>, stats |-> StatsDefault,
               was_disconnected |-> TRUE,
               next_server_read |-> Countdown(server_read_interval),
               next_status_request |-> "pending",
               next_server_retry |-> Countdown(0),
               ret |-> "Ok", io |-> <<>>, slept |-> FALSE, link |-> "Ok"]
        c1 == disconnected_pass(c0, TRUE)
    IN  connected_pass([c1 EXCEPT !.io = <<>>], Read("WouldBlock", Garbage))

\* the counters an earlier session can have left in the stats
Counters ==
    {n \in [num_shares_accepted : 0..MaxShares, num_rejected : 0..MaxShares,
            num_staled : 0..MaxShares, num_blocks_found : 0..MaxShares] :
        /\ n.num_blocks_found <= n.num_shares_accepted
        /\ n.num_shares_accepted + n.num_rejected + n.num_staled <= MaxShares}

\* the stats of a session opened after an earlier session read lines and
\* was dropped: the counters, my_algorithm and connected are as it left them
Reopened(st, algo, n) ==
    [st EXCEPT !.my_algorithm = my_algorithm_name(algo),
               !.connected = TRUE,
               !.num_shares_accepted = n.num_shares_accepted,
               !.num_rejected = n.num_rejected,
               !.num_staled = n.num_staled,
               !.num_blocks_found = n.num_blocks_found]

\* a session in Steady, one second after it was opened: the first session
\* of a run, or a later one
InitFrames ==
    \E algo \in Algorithm, login \in Logins :
        LET c == Steady(algo, login)
        IN  /\ pc = c.pc
            /\ algorithm = algo
            /\ server_login = login
            /\ stream = c.stream
            /\ rx = c.rx
            /\ \/ stats = c.stats
               \/ \E n \in Counters : stats = Reopened(c.stats, algo, n)
            /\ was_disconnected = c.was_disconnected
            /\ next_server_read = Countdown(c.next_server_read)
            /\ next_status_request = c.next_status_request
            /\ next_server_retry = Countdown(c.next_server_retry)
            /\ io = <<>>
            /\ wire = NextWire(<<>>, c.io)
            /\ hist = [NoHist EXCEPT !.since_attempt = 1]
            /\ probe = None
            /\ inbound = NoInbound

\* the pass that reads the line m, the first line read in this run
FramePass ==
    /\ pc = "loop"
    /\ stream
    /\ SelectSeq(io, IsLineRead) = <<>>
    /\ \E m \in Lines : Pass(connected_pass(Cur, Read("Line", m)))
    /\ UNCHANGED inbound

NextFrames == FramePass

SpecFrames == InitFrames /\ [][NextFrames]_vars

----------------------------------------------------------------------------
(* Lines that arrive in pieces: the server's bytes reach the socket in     *)
(* two writes, the second of which ends with the newline.                  *)

MaxPieces == 2

\* the lines the server sends in two pieces
PieceLines ==
    {Result("keepalive", Quoted(T_ok)),
     Line(TRUE, "job", TRUE, TRUE, TRUE,
          JobTemplate("randomx", <<<<"randomx", 8>>>>), <<>>, None)}

\* part "head": the bytes of the line before its last ones, no newline;
\* part "tail": the rest of the line and its newline
Piece(part, line) == [part |-> part, line |-> line]

\* lines 224-248 on a socket that holds the pieces buf.  read_line takes
\* bytes until a newline: a head followed by its tail is the line, a tail
\* alone is the end of a line and does not parse.  With no newline to be
\* had, read_line has appended all the bytes to `line` (line 228) when the
\* socket answers WouldBlock; read_message returns Ok(None) at line 243 and
\* `line` is dropped with what it holds.
read_message(buf) ==
    IF buf = <<>>
    THEN [res |-> "WouldBlock", line |-> Garbage, rest |-> <<>>]
    ELSE IF buf[1].part = "tail"
    THEN [res |-> "Line", line |-> Garbage, rest |-> Tail(buf)]
    ELSE IF Len(buf) >= 2
    THEN [res |-> "Line", line |-> buf[1].line, rest |-> Tail(Tail(buf))]
    ELSE [res |-> "WouldBlock", line |-> Garbage, rest |-> <<>>]

\* the session of Steady for RandomX, nothing received yet
InitPieces ==
    LET c == Steady("RandomX", Some("alice"))
    IN  /\ pc = c.pc
        /\ algorithm = "RandomX"
        /\ server_login = Some("alice")
        /\ stream = c.stream
        /\ rx = c.rx
        /\ stats = c.stats
        /\ was_disconnected = c.was_disconnected
        /\ next_server_read = Countdown(c.next_server_read)
        /\ next_status_request = c.next_status_request
        /\ next_server_retry = Countdown(c.next_server_retry)
        /\ io = <<>>
        /\ wire = NextWire(<<>>, c.io)
        /\ hist = [NoHist EXCEPT !.since_attempt = 1]
        /\ probe = None
        /\ inbound = NoInbound

\* the next piece of what the server sends reaches the socket
ServerSends ==
    /\ pc = "loop"
    /\ stream
    /\ Len(inbound.buf) < MaxPieces
    /\ IF IsSome(inbound.mid)
       THEN inbound' = [buf |-> Append(inbound.buf,
                                       Piece("tail", Unwrap(inbound.mid))),
                        mid |-> None]
       ELSE \E l \in PieceLines :
               inbound' = [buf |-> Append(inbound.buf, Piece("head", l)),
                           mid |-> Some(l)]
    /\ io' = <<>>
    /\ probe' = None
    /\ UNCHANGED <<pc, algorithm, server_login, stream, rx, stats,
                   was_disconnected, next_server_read, next_status_request,
                   next_server_retry, wire, hist>>

\* a pass of the loop on a connection whose reads do not fail and whose
\* writes succeed; the read, when it is due, takes from the socket
PiecePass ==
    /\ pc = "loop"
    /\ stream
    /\ \E m \in {read_message(inbound.buf)} :
          \E c \in {connected_pass(Cur, Read(m.res, m.line))} :
              /\ Pass(c)
              /\ inbound' =
                    IF SelectSeq(c.io, LAMBDA e : e.op = "read_line") # <<>>
                    THEN [inbound EXCEPT !.buf = m.rest]
                    ELSE inbound

NextPieces == Tick \/ ServerSends \/ PiecePass

SpecPieces == InitPieces /\ [][NextPieces]_vars

----------------------------------------------------------------------------
(* What the last pass read and what it sent to the miner *)

LinesRead == SelectSeq(io, IsLineRead)

HasRead == LinesRead # <<>>

TheLine == LinesRead[1].arg.line

MinerSent(kind) ==
    Len(SelectSeq(io, LAMBDA e : e.op = "miner_tx.send" /\ e.arg.kind = kind))

\* a `job` request or a `getjobtemplate` result that carries a JobTemplate
IsJob(m) ==
    /\ m.json /\ m.typed /\ m.payload /\ m.decodes
    /\ m.method \in {"job", "getjobtemplate"}

IsSubmit(m) == m.json /\ m.typed /\ m.method = "submit"

ReadsJob == HasRead /\ IsJob(TheLine)

ForMe == TheLine.job.algorithm = parse_algorithm(algorithm)

NonEmptyLogin == IsSome(server_login) /\ Unwrap(server_login) # ""

----------------------------------------------------------------------------
(* Properties *)

\* C1: a job request or getjobtemplate result whose algorithm is the
\* controller's token puts exactly one ReceivedJob and exactly one
\* ReceivedSeed on the miner channel, whatever its difficulty list holds.
C1_OneJobOneSeed ==
    (ReadsJob /\ ForMe) =>
        (MinerSent("ReceivedJob") = 1 /\ MinerSent("ReceivedSeed") = 1)

\* C2: a job request or getjobtemplate result whose algorithm is not the
\* controller's token (an unknown name included) puts exactly one StopJob
\* and no ReceivedJob and no ReceivedSeed on the miner channel.
C2_MismatchStops ==
    (ReadsJob /\ ~ForMe) =>
        /\ MinerSent("StopJob") = 1
        /\ MinerSent("ReceivedJob") = 0
        /\ MinerSent("ReceivedSeed") = 0

C2_Witness ==
    /\ ReadsJob
    /\ TheLine.job.algorithm = "foo"
    /\ TheLine.method = "getjobtemplate"
    /\ MinerSent("StopJob") = 1

\* the pass that ends in the primed state read a submit response
SubmitStep(withResult) ==
    /\ SelectSeq(io', IsLineRead) # <<>>
    /\ IsSubmit(SelectSeq(io', IsLineRead)[1].arg.line)
    /\ SelectSeq(io', IsLineRead)[1].arg.line.payload = withResult

BlockText == Contains(SelectSeq(io', IsLineRead)[1].arg.line.text, T_blockfound)

ErrorText ==
    LET e == SelectSeq(io', IsLineRead)[1].arg.line.error
    IN  IF IsSome(e) THEN Unwrap(e).message ELSE T_invalid_error

\* C3: a submit response with a result adds one to num_shares_accepted, one
\* to num_blocks_found exactly when the result text contains `blockfound`,
\* and leaves num_staled and num_rejected alone.
C3_Accepted ==
    [][SubmitStep(TRUE) =>
        /\ stats'.num_shares_accepted = stats.num_shares_accepted + 1
        /\ stats'.num_blocks_found =
              stats.num_blocks_found + (IF BlockText THEN 1 ELSE 0)
        /\ stats'.num_staled = stats.num_staled
        /\ stats'.num_rejected = stats.num_rejected]_vars

C3_Witness ==
    /\ HasRead /\ IsSubmit(TheLine) /\ TheLine.payload
    /\ TheLine.text = Quoted(T_ok)
    /\ stats.num_shares_accepted = 1
    /\ stats.num_blocks_found = 0

\* C4: a submit response without a result adds one to num_staled when the
\* error message contains `too late` and one to num_rejected otherwise,
\* never to both, and leaves the other two counters alone.
C4_Refused ==
    [][SubmitStep(FALSE) =>
        /\ stats'.num_staled =
              stats.num_staled + (IF Contains(ErrorText, T_too_late) THEN 1 ELSE 0)
        /\ stats'.num_rejected =
              stats.num_rejected + (IF Contains(ErrorText, T_too_late) THEN 0 ELSE 1)
        /\ stats'.num_shares_accepted = stats.num_shares_accepted
        /\ stats'.num_blocks_found = stats.num_blocks_found]_vars

C4_Witness ==
    /\ HasRead /\ IsSubmit(TheLine) /\ ~TheLine.payload
    /\ TheLine.error = Some(RpcError(T_late))
    /\ stats.num_rejected = 1
    /\ stats.num_staled = 0

\* C5: no step makes any of the four counters smaller.
C5_Monotonic ==
    [][/\ stats'.num_shares_accepted >= stats.num_shares_accepted
       /\ stats'.num_rejected >= stats.num_rejected
       /\ stats'.num_staled >= stats.num_staled
       /\ stats'.num_blocks_found >= stats.num_blocks_found]_vars

\* a share was counted in an earlier session and a new one has just been
\* connected
C5_Witness ==
    /\ stream /\ was_disconnected
    /\ stats.num_shares_accepted = 1
    /\ stats.num_blocks_found = 1

\* C6: at a connect attempt, exactly one StopJob has been sent since the
\* transport of a Steady session was dropped, and none has been sent since
\* startup or since the attempt before when no session was dropped.
C6_OneStopPerDrop ==
    IsSome(probe) =>
        Unwrap(probe).stops = (IF Unwrap(probe).after_drop THEN 1 ELSE 0)

C6_Witness ==
    /\ IsSome(probe)
    /\ Unwrap(probe).after_drop
    /\ Unwrap(probe).stops = 1

\* C7: with a non-empty login, a connection on which the controller has
\* read was opened by a login request followed by a getjobtemplate
\* request, both written before the first read.
C7_LoginThenTemplate ==
    (NonEmptyLogin /\ stream /\ \E i \in 1..Len(io) : io[i].op = "read_line") =>
        wire = <<"login", "getjobtemplate">>

C7_Witness ==
    /\ NonEmptyLogin
    /\ HasRead
    /\ stats.num_shares_accepted = 1
    /\ wire = <<"login", "getjobtemplate">>

\* C8, as claimed: a reconnect is attempted only when 5 seconds have passed
\* since the disconnect.  drop_age counts the times the clock's second
\* changed since the disconnect: 5 seconds change it at least 4 times.
C8_FiveSecondsAfterDrop ==
    (IsSome(probe) /\ Unwrap(probe).after_drop) =>
        Unwrap(probe).drop_age >= server_retry_interval - 1

\* C8, amended: a reconnect is attempted only when more than 5 seconds
\* have passed since the connect attempt before it returned.
C8_FiveSecondsAfterAttempt ==
    (IsSome(probe) /\ Unwrap(probe).after_drop) =>
        Unwrap(probe).gap > server_retry_interval

\* a session that outlived the retry interval is reconnected at once
C8_Witness ==
    /\ IsSome(probe)
    /\ Unwrap(probe).after_drop
    /\ Unwrap(probe).drop_age = 0
    /\ Unwrap(probe).gap > server_retry_interval

\* C9: while connection_status is "Server requires login", connected is
\* false.
C9_LoginRequiredNotConnected ==
    stats.connection_status = StatusRequiresLogin => ~stats.connected

\* C10: once the loop has handled the loss of the transport (the branch for
\* an absent stream has run), connected is false while the transport is
\* absent.
C10_DroppedNotConnected ==
    (pc = "loop" /\ ~stream /\ was_disconnected) => ~stats.connected

\* a write or flush on the transport failed in the last pass
WriteFailed == \E i \in 1..Len(io) : io[i].op = "write" /\ io[i].res = "Err"

\* C11: a pass in which a write or flush on the transport fails ends with
\* the transport dropped.
C11_WriteFailureDrops == WriteFailed => ~stream

\* the line is not JSON, or is no RpcRequest / RpcResponse, or its payload
\* is not what its handler decodes
Malformed(m) == ~m.json \/ ~m.typed \/ (m.payload /\ ~m.decodes)

MalformedStep ==
    /\ SelectSeq(io', IsLineRead) # <<>>
    /\ Malformed(SelectSeq(io', IsLineRead)[1].arg.line)

\* C12: a pass that reads a malformed line keeps the transport and the
\* session (the loop goes on reading, no new handshake), sends nothing to
\* the miner and changes no counter.
C12_MalformedDiscarded ==
    [][MalformedStep =>
        /\ stream' /\ pc' = "loop" /\ ~was_disconnected'
        /\ SelectSeq(io', LAMBDA e : e.op = "miner_tx.send") = <<>>
        /\ stats'.num_shares_accepted = stats.num_shares_accepted
        /\ stats'.num_rejected = stats.num_rejected
        /\ stats'.num_staled = stats.num_staled
        /\ stats'.num_blocks_found = stats.num_blocks_found]_vars

C12_Witness ==
    /\ HasRead
    /\ TheLine = Line(TRUE, "getjobtemplate", TRUE, TRUE, FALSE, NoJob, <<>>, None)
    /\ stream
    /\ stats.num_rejected = 1

ShutdownQueued == SelectSeq(rx, IsShutdown) # <<>>

\* C13: once Shutdown is on the channel, run returns or, at the least, the
\* transport is lost (the claim asks for the return in every case).
C13_ShutdownReturns == ShutdownQueued ~> (pc = "done" \/ ~stream)

\* the `submit` requests written in the pass that ends in the primed state
SubmitsWritten ==
    SelectSeq(io', LAMBDA e : e.op = "write" /\ e.arg.method = "submit")

\* the FoundSolution messages that pass took from the channel
SolutionsTaken ==
    SelectSeq(SubSeq(rx, 1, Len(rx) - Len(rx')), LAMBDA m : ~IsShutdown(m))

\* C14: a pass writes one `submit` request for each FoundSolution it takes
\* from the channel, whether the transport is present or not.
C14_SubmitPerSolution ==
    [][Len(rx') < Len(rx) => Len(SubmitsWritten) = Len(SolutionsTaken)]_vars

\* what the last pass sent to the miner, in order
MinerSends == SelectSeq(io, LAMBDA e : e.op = "miner_tx.send")

\* C15, as claimed: of the two messages a matching job puts on the miner
\* channel, ReceivedJob is the first and ReceivedSeed the second.
C15_JobThenSeed ==
    (ReadsJob /\ ForMe /\ Len(MinerSends) = 2) =>
        /\ MinerSends[1].arg.kind = "ReceivedJob"
        /\ MinerSends[2].arg.kind = "ReceivedSeed"

\* C15, amended: a matching job puts ReceivedSeed on the miner channel
\* first, and ReceivedJob, when it is sent, second.
C15_SeedThenJob ==
    (ReadsJob /\ ForMe) =>
        /\ MinerSends # <<>>
        /\ MinerSends[1].arg.kind = "ReceivedSeed"
        /\ \A i \in 2..Len(MinerSends) :
              i = 2 /\ MinerSends[i].arg.kind = "ReceivedJob"

C15_Witness ==
    /\ ReadsJob /\ ForMe
    /\ TheLine.method = "job"
    /\ Len(MinerSends) = 2
    /\ MinerSends[1].arg.kind = "ReceivedSeed"
    /\ MinerSends[2].arg.kind = "ReceivedJob"

\* the value paired with the name `own` in a difficulty list, from entry i
\* on, and 1 when there is none
RECURSIVE OwnDifficulty(_, _, _)
OwnDifficulty(own, difficulty, i) ==
    IF i > Len(difficulty) THEN 1
    ELSE IF difficulty[i][1] = own THEN difficulty[i][2]
         ELSE OwnDifficulty(own, difficulty, i + 1)

\* C16: a matching job puts a ReceivedJob on the miner channel whose
\* difficulty is the value paired with the controller's algorithm name in
\* the job's difficulty list, and 1 when the list has no such pair.
C16_OwnDifficulty ==
    (ReadsJob /\ ForMe) =>
        \E i \in 1..Len(MinerSends) :
            /\ MinerSends[i].arg.kind = "ReceivedJob"
            /\ MinerSends[i].arg.difficulty =
                  OwnDifficulty(parse_algorithm(algorithm),
                                TheLine.job.difficulty, 1)

\* the last pass read a `login` response without a result
LoginRefused ==
    /\ HasRead
    /\ TheLine.json /\ TheLine.typed
    /\ TheLine.method = "login" /\ ~TheLine.payload

\* C17: the pass that reads a `login` response without a result leaves
\* connected false and connection_status "Server requires login", keeps
\* the transport and the session, sends no StopJob and does not return.
C17_LoginRefusedKeepsSession ==
    LoginRefused =>
        /\ ~stats.connected
        /\ stats.connection_status = StatusRequiresLogin
        /\ stream /\ ~was_disconnected
        /\ pc = "loop"
        /\ MinerSent("StopJob") = 0

\* a refused login in a session reopened after a share was counted
C17_Witness ==
    /\ LoginRefused
    /\ stream
    /\ stats.connection_status = StatusRequiresLogin
    /\ stats.num_staled = 1

Writes == SelectSeq(io, LAMBDA e : e.op = "write")

\* the texts last_message_sent takes for login, getjobtemplate and submit
\* requests, and its initial text
OtherSentTexts ==
    {<<"">>, <<"Last Message Sent: Login">>, <<"Last Message Sent: Get New Job">>}
    \cup {<<"Last Message Sent: Found share for height: ", m.height,
            " - nonce: ", m.solution.nonce>> : m \in ClientMessages}

\* C18: after a pass whose last request written is a `status` request,
\* last_message_sent is the text of that request and of no other request.
C18_StatusUpdatesLastSent ==
    (Writes # <<>> /\ Writes[Len(Writes)].arg.method = "status") =>
        stats.last_message_sent \notin OtherSentTexts

\* C19: no message is sent on the miner channel while the stats write
\* guard is held.
C19_NoLockAcrossMinerSend ==
    \A i \in 1..Len(io) : io[i].op = "miner_tx.send" => ~io[i].locked

TransportOps == {"try_connect", "read_line", "write"}

\* C20: no call on the transport (connect, read_line, write and flush) is
\* made while the stats write guard is held.
C20_NoLockAcrossTransport ==
    \A i \in 1..Len(io) : io[i].op \in TransportOps => ~io[i].locked

\* a pass that read a line and then wrote a submit request, the stats
\* written before each
C20_Witness ==
    /\ \E i \in 1..Len(io) : io[i].op = "read_line"
    /\ Writes # <<>>
    /\ Writes[Len(Writes)].arg.method = "submit"
    /\ stats.last_message_sent \notin
          {<<"">>, <<"Last Message Sent: Login">>, <<"Last Message Sent: Get New Job">>}
    /\ stats.connected

\* C21: run does not panic: it ends only by returning on Shutdown.
C21_NoPanic == pc # "panicked"

\* C22: a connect attempt is made at least 5 seconds after the attempt
\* before it, whether that one succeeded or failed.
C22_AttemptsFiveSecondsApart ==
    (IsSome(probe) /\ Unwrap(probe).gap >= 0) =>
        Unwrap(probe).gap >= server_retry_interval

\* an attempt that follows a failed one, with no session in between
C22_Witness ==
    /\ IsSome(probe)
    /\ ~Unwrap(probe).after_drop
    /\ Unwrap(probe).gap > server_retry_interval
    /\ stats.connection_status = StatusCantConnect

\* C23: without a login (absent or empty) no `login` request is written,
\* last_message_sent is never the Login text, and a connection whose
\* handshake is over was opened by a getjobtemplate request alone.
C23_NoLoginSkipsLoginRequest ==
    ~NonEmptyLogin =>
        /\ \A i \in 1..Len(Writes) : Writes[i].arg.method # "login"
        /\ stats.last_message_sent # <<"Last Message Sent: Login">>
        /\ (stream /\ ~was_disconnected) => wire[1] = "getjobtemplate"

\* the pass that opens a connection with getjobtemplate alone, the login
\* being empty, after a share was refused
C23_Witness ==
    /\ server_login = Some("")
    /\ stream /\ ~was_disconnected
    /\ wire = <<"getjobtemplate">>
    /\ stats.num_rejected = 1
    /\ \E i \in 1..Len(Writes) : Writes[i].arg.method = "getjobtemplate"

\* C24: while run is in its loop, my_algorithm is the name of the
\* controller's algorithm.
C24_MyAlgorithmFromStartup ==
    pc = "loop" => stats.my_algorithm = my_algorithm_name(algorithm)

\* C25: in the pass that connects, nothing but login and getjobtemplate
\* requests is written after the connect.
C25_HandshakeFirst ==
    \A i, j \in 1..Len(io) :
        (i < j /\ io[i].op = "try_connect" /\ io[j].op = "write") =>
            io[j].arg.method \in {"login", "getjobtemplate"}

\* C26: a read that finds no newline and returns None takes nothing from
\* what the server has sent: the bytes stay for the read that completes the
\* line.
C26_NoBytesLost ==
    [][(\E i \in 1..Len(io') : /\ io'[i].op = "read_line"
                               /\ io'[i].arg.res = "WouldBlock")
          => inbound'.buf = inbound.buf]_vars

\* the miner worker sends on Controller.tx once the controller has taken
\* what it sent before
RetryMinerSend ==
    /\ pc = "loop"
    /\ rx = <<>>
    /\ \E message \in ClientMessages : rx' = <<message>>
    /\ io' = <<>>
    /\ probe' = None
    /\ UNCHANGED <<pc, algorithm, server_login, stream, stats, was_disconnected,
                   next_server_read, next_status_request, next_server_retry,
                   wire, hist, inbound>>

\* a pass of the loop without a transport, where the writes of the pass
\* that connects succeed
RetryDisconnectedPass ==
    /\ pc = "loop"
    /\ ~stream
    /\ \E ok \in BOOLEAN :
          \E c \in {disconnected_pass(Cur, ok)} : Pass(c)
    /\ UNCHANGED inbound

\* a pass of the loop on a connection whose writes succeed and whose
\* server sends nothing the controller can decode: the read gives nothing,
\* a line that is not JSON, or fails
RetryPass ==
    /\ pc = "loop"
    /\ stream
    /\ \E r \in Reads({"BrokenPipe"}, {Garbage}) :
          \E c \in {connected_pass(Cur, r)} : Pass(c)
    /\ UNCHANGED inbound

NextRetry ==
    Start \/ Tick \/ RetryMinerSend \/ RetryDisconnectedPass \/ RetryPass

\* the session lifecycle of a controller with a login, under a scheduler
\* that runs the thread of run and a clock that advances
SpecRetry ==
    /\ InitWith("RandomX", Some("alice"))
    /\ [][NextRetry]_vars
    /\ WF_vars(Tick)
    /\ WF_vars(RetryDisconnectedPass)
    /\ WF_vars(RetryPass)

\* C28: while run is in its loop without a transport, a connect attempt
\* follows (or run returns on Shutdown); once a connect has succeeded, a
\* getjobtemplate request is written on the new connection (or run returns
\* on Shutdown).
C28_RetriesAndReopens ==
    /\ (pc = "loop" /\ ~stream) ~> (IsSome(probe) \/ pc = "done")
    /\ (pc = "loop" /\ stream /\ was_disconnected)
          ~> (\/ \E i \in 1..Len(io) : /\ io[i].op = "write"
                                        /\ io[i].arg.method = "getjobtemplate"
              \/ pc = "done")

\* a connect attempt after a drop has succeeded and the session is opened
\* again: getjobtemplate is written in a pass that reads no line, on the
\* connection that follows the one in which a line was read
C28_Witness ==
    /\ stream /\ ~was_disconnected
    /\ stats.connected
    /\ SelectSeq(io, IsLineRead) = <<>>
    /\ \E i \in 1..Len(io) : /\ io[i].op = "write"
                             /\ io[i].arg.method = "getjobtemplate"

\* C27: a step that changes last_message_sent writes a request to the
\* transport.
C27_LastSentOnlyWhenWritten ==
    [][stats'.last_message_sent # stats.last_message_sent =>
          SelectSeq(io', LAMBDA e : e.op = "write") # <<>>]_vars

\* the methods handle_response has an arm for, and `job`, which is a request
KnownMethods ==
    {"job", "status", "getjobtemplate", "submit", "keepalive", "login", "seed"}

\* a response to status, keepalive, login or a method without an arm, or a
\* getjobtemplate or seed response without a result
QuietResponse(m) ==
    /\ m.json /\ m.typed
    /\ \/ m.method \in {"status", "keepalive", "login"}
       \/ m.method \notin KnownMethods
       \/ m.method \in {"getjobtemplate", "seed"} /\ ~m.payload

QuietStep ==
    /\ SelectSeq(io', IsLineRead) # <<>>
    /\ QuietResponse(SelectSeq(io', IsLineRead)[1].arg.line)

\* C29: the pass that handles a status, keepalive, login or unknown-method
\* response, or a getjobtemplate or seed response without a result, sends
\* nothing to the miner and leaves the four solution counters as they were.
C29_QuietResponses ==
    [][QuietStep =>
        /\ SelectSeq(io', LAMBDA e : e.op = "miner_tx.send") = <<>>
        /\ stats'.num_shares_accepted = stats.num_shares_accepted
        /\ stats'.num_rejected = stats.num_rejected
        /\ stats'.num_staled = stats.num_staled
        /\ stats'.num_blocks_found = stats.num_blocks_found]_vars

\* a seed response without a result has been handled in a session that had
\* a share accepted: the counter stands, the miner was sent nothing
C29_Witness ==
    /\ HasRead
    /\ TheLine = Failure("seed", None)
    /\ stats.num_shares_accepted = 1
    /\ MinerSends = <<>>
    /\ stream

====
